---- MODULE Spec2Model ----
(***************************************************************************)
(* A model of compsyn/helperfunctions.py: the image-URL harvester          *)
(* (fetch_image_urls), the content-addressed downloader (save_image) and   *)
(* the orchestrator (search_and_download) that runs one after the other,   *)
(* and of compsyn/vector.py: a Vector's save, load, push and pull.         *)
(*                                                                         *)
(* The browser (the selenium webdriver) and the HTTP endpoints are the     *)
(* environment: what they answer is chosen nondeterministically from small *)
(* sets at the moment the code asks.                                       *)
(***************************************************************************)
EXTENDS Integers, Sequences, FiniteSets, TLC

(* ------------------------------ bounds -------------------------------- *)
\* number_images (the target count) ranges over 1..MaxTarget
MaxTarget == 2
\* the thumbnail list the browser reports has 0..MaxThumbs elements
MaxThumbs == 2
\* a click reveals 0..MaxRevealed full-size image elements
MaxRevealed == 2
\* the page offers a pagination control for at most MaxPages activations
MaxPages == 2
\* number of distinct absolute URLs the page can show
NumUrls == 3
\* a scripted page appends 1..MaxPerPage thumbnails per page load
MaxPerPage == 10
\* a scripted page has 1..MaxScriptPages pages
MaxScriptPages == 4
\* significant bits of a float (53 in the program), and of random()'s draws
MantissaBits == 4
\* run_analysis gives a Vector one of 1..MaxAnalysis analysis results
MaxAnalysis == 2
\* fuzzy_sleep is called with min_time = 1/4 .. MaxMinQuarters/4
MaxMinQuarters == 8

(* --------------------------- program constants ------------------------ *)
\* hexdigest()[:10]
HashPrefixLen == 10

(* ------------------------------ values -------------------------------- *)
UrlNames == {"u1", "u2", "u3", "u4", "u5", "u6"}

UrlIndex(n) ==
    CASE n = "u1" -> 1 [] n = "u2" -> 2 [] n = "u3" -> 3
      [] n = "u4" -> 4 [] n = "u5" -> 5 [] n = "u6" -> 6

\* The src attribute of a revealed image, as a sequence of string pieces.
\* <<>> is None or the empty string (both falsy in the code's test).
NoSrc == <<>>
HttpSrcs == {<<"http", n>> : n \in {m \in UrlNames : UrlIndex(m) <= NumUrls}}
SrcValues == {NoSrc, <<"data:", "x">>} \cup HttpSrcs

\* `"http" in src`
ContainsHttp(src) == \E i \in DOMAIN src : src[i] = "http"

\* get_attribute("src") and "http" in get_attribute("src")
UsableSrc(src) == src # NoSrc /\ ContainsHttp(src)

Min(a, b) == IF a <= b THEN a ELSE b

Folders == {"./downloads", "./other"}

\* response bodies: two of them are images PIL can identify
Bodies == {"jpegA", "jpegB", "pngA2", "htmlPage", "garbage"}
ContentTypes == {"image/jpeg", "text/html; charset=UTF-8", "absent"}

\* Image.open(...).convert("RGB") succeeds
Identifiable(body) == body \in {"jpegA", "jpegB", "pngA2"}

\* `"text/html" in resp.headers["content-type"]`
IsHtmlType(ctype) == ctype = "text/html; charset=UTF-8"

\* hashlib.sha1(image_content).hexdigest(): a fixed digest per byte string,
\* longer than the prefix the file name keeps. pngA2 differs from jpegA only
\* after the prefix.
Sha1Hex(body) ==
    CASE body = "jpegA" -> <<"a","1","b","2","c","3","d","4","e","5","0","0">>
      [] body = "pngA2" -> <<"a","1","b","2","c","3","d","4","e","5","f","f">>
      [] body = "jpegB" -> <<"7","7","b","2","c","3","d","4","e","5","0","0">>
      [] body = "htmlPage" -> <<"3","c","b","2","c","3","d","4","e","5","0","0">>
      [] OTHER -> <<"9","9","9","9","9","9","9","9","9","9","9","9">>

\* variant: the file is named after the URL instead of the content
FilePathFromUrl(folder, url, body) ==
    [dir |-> folder, name |-> <<url[2], ".jpg">>]

\* os.path.join(folder_path, hexdigest()[:10] + ".jpg"), inside
\* save_image(folder_path, url) with the response bytes at hand
FilePath(folder, url, body) ==
    [dir |-> folder, name |-> Append(SubSeq(Sha1Hex(body), 1, HashPrefixLen), ".jpg")]

NoPath == [dir |-> "", name |-> <<>>]

\* image.save(f, "JPEG", quality=85) of the decoded bytes
Encoded(body) == [format |-> "JPEG", of |-> body]
NoImage == [format |-> "", of |-> ""]

\* what requests.get(url) can answer: it raises, or gives bytes and headers
Responses ==
    {[fetch |-> "fail", body |-> "garbage", ctype |-> "absent"]}
    \cup [fetch : {"ok"}, body : Bodies, ctype : ContentTypes]

\* variant: the except branch re-raises without looking at the content-type
DecodeFailureNoHtmlCheck(ctype) ==
    IF ctype = "absent" THEN "KeyError" ELSE "UnidentifiedImageError"

\* the except branch of save_image: which exception leaves the function
DecodeFailure(ctype) ==
    IF ctype = "absent" THEN "KeyError"
    ELSE IF IsHtmlType(ctype) THEN "UnexpectedHTMLResponseFromImgSrcError"
    ELSE "UnidentifiedImageError"

\* save_image(folder_path, url) on the response the endpoint gives: the
\* exception raised ("none" when it returns), the file written, and whether
\* the content-type header was read.
SaveImage(folder, url, resp) ==
    IF resp.fetch = "fail"
    THEN [raised |-> "ConnectionError", path |-> NoPath, image |-> NoImage,
          readCtype |-> FALSE]
    ELSE IF Identifiable(resp.body)
    THEN [raised |-> "none", path |-> FilePath(folder, url, resp.body),
          image |-> Encoded(resp.body), readCtype |-> FALSE]
    ELSE [raised |-> DecodeFailure(resp.ctype), path |-> NoPath,
          image |-> NoImage, readCtype |-> TRUE]

(* ------------------------------- state -------------------------------- *)
VARIABLES
    \* search_and_download
    opc,            \* position in search_and_download
    number_images,  \* the target count
    target_path,    \* the download folder
    wd,             \* the webdriver: "none", "open" or "quit"
    acquisitions,   \* get_webdriver calls that returned a driver
    quitCalls,      \* wd.quit() calls made
    lateOps,        \* calls made on the driver after its first quit()
    urls,           \* the harvester's return value, once bound
    pending,        \* URLs the for loop has not reached yet
    errors,         \* the local `errors`: unbound until the loop body runs
    dl,             \* per URL downloaded: the response and what save_image did
    store,          \* the files under the download folders: path -> image
    summary,        \* what the closing log lines report
    \* fetch_image_urls
    hpc,            \* position in fetch_image_urls
    returnedAt,     \* which return statement ended it
    image_urls,
    image_count,
    results_start,
    number_results,
    thumbs,         \* len(thumbnail_results) of this iteration
    idx,            \* next index of thumbnail_results the for loop takes
    remaining,      \* revealed image elements the inner loop has not seen
    result,         \* the value returned
    lastPag,        \* see_more_anyway_button, load_more_button, the control clicked
    lastStep,       \* the last thing the loop body did, and whether it paced
    window,         \* indices whose activation this iteration attempted
    earlier,        \* indices whose activation earlier iterations attempted
    \* the page
    pagesLeft,      \* pagination activations the page still answers
    surface,        \* how the page behaves: free, append-only, or scripted
    \* fuzzy_sleep
    ppc,            \* position in a fuzzy_sleep call
    min_time,       \* its argument, in quarters
    slept,          \* the argument it gave time.sleep, in Units
    \* Vector
    vec,            \* the Vector objects: their class and their __dict__
    localfs,        \* the pickle files under the work directories
    remote,         \* the objects in the S3 bucket
    pushedAt,       \* per S3 path: the class and __dict__ its last pusher had
    vcall           \* the last Vector method called, on what, and what it raised

ovars == <<opc, number_images, target_path, wd, acquisitions, quitCalls,
           lateOps, urls, pending, errors, dl, store, summary>>
hlocals == <<image_urls, image_count, results_start, number_results, thumbs,
             idx, remaining>>
hvars == <<hpc, returnedAt, image_urls, image_count, results_start,
           number_results, thumbs, idx, remaining, result, lastPag, lastStep,
           window, earlier, pagesLeft, surface>>
vars == <<opc, number_images, target_path, wd, acquisitions, quitCalls,
          lateOps, urls, pending, errors, dl, store, summary,
          hpc, returnedAt, image_urls, image_count, results_start,
          number_results, thumbs, idx, remaining, result, lastPag, lastStep,
          window, earlier, pagesLeft, surface, ppc, min_time, slept,
          vec, localfs, remote, pushedAt, vcall>>
pvars == <<ppc, min_time, slept>>
vvars == <<vec, localfs, remote, pushedAt, vcall>>

EmptyMap == <<>>
Unbound == [bound |-> FALSE, map |-> EmptyMap]
NoPag == [see |-> FALSE, load |-> FALSE, clicked |-> "unresolved"]
NoSummary == [logged |-> FALSE, failures |-> 0, successes |-> 0]
NoStep == [event |-> "none", paced |-> FALSE]

\* A page without a script: any list, any control ("free"), or the same with
\* a thumbnail list that only grows ("append").
Unscripted(kind) == [kind |-> kind, perPage |-> 0, pages |-> 0, loaded |-> 0]

\* A scripted page: every page load appends perPage thumbnails, up to `pages`
\* page loads; thumbnail i reveals one image whose src is its own URL.
Scripted(k, p) == [kind |-> "paged", perPage |-> k, pages |-> p, loaded |-> 1]

Program ==
    /\ opc = "start"
    /\ target_path \in Folders
    /\ wd = "none"
    /\ acquisitions = 0
    /\ quitCalls = 0
    /\ lateOps = 0
    /\ urls = {}
    /\ pending = {}
    /\ errors = Unbound
    /\ dl = EmptyMap
    /\ store = EmptyMap
    /\ summary = NoSummary
    /\ hpc = "idle"
    /\ returnedAt = "none"
    /\ image_urls = {}
    /\ image_count = 0
    /\ results_start = 0
    /\ number_results = 0
    /\ thumbs = 0
    /\ idx = 0
    /\ remaining = 0
    /\ result = {}
    /\ lastPag = NoPag
    /\ lastStep = NoStep
    /\ window = {}
    /\ earlier = {}

NoPace ==
    /\ ppc = "idle"
    /\ min_time = 0
    /\ slept = 0

NoCall == [op |-> "none", self |-> "none", raised |-> "none"]

NoVectors ==
    /\ vec = EmptyMap
    /\ localfs = EmptyMap
    /\ remote = EmptyMap
    /\ pushedAt = EmptyMap
    /\ vcall = NoCall

Init ==
    /\ Program
    /\ NoPace
    /\ NoVectors
    /\ number_images \in 1..MaxTarget
    /\ pagesLeft \in 0..MaxPages
    /\ surface \in {Unscripted("free"), Unscripted("append")}

\* the scripted page: Load More is offered while pages remain to load, or
\* once more on the last page, where its activation loads nothing
ScenarioInit ==
    /\ Program
    /\ NoPace
    /\ NoVectors
    /\ \E k \in 1..MaxPerPage, p \in 1..MaxScriptPages :
         /\ surface = Scripted(k, p)
         /\ pagesLeft \in {p - 1, p}
         /\ number_images \in 1..(k * p + 1)

\* a call fuzzy_sleep(min_time) about to run, outside any harvest
PaceInit ==
    /\ Program
    /\ NoVectors
    /\ number_images = 1
    /\ pagesLeft = 0
    /\ surface = Unscripted("free")
    /\ ppc = "call"
    /\ min_time \in 1..MaxMinQuarters
    /\ slept = 0

(* ----------------------------- fuzzy_sleep ---------------------------- *)
RECURSIVE Pow2(_)
Pow2(n) == IF n = 0 THEN 1 ELSE 2 * Pow2(n - 1)

RECURSIVE BitLen(_)
BitLen(n) == IF n = 0 THEN 0 ELSE 1 + BitLen(n \div 2)

\* Lengths of time are whole numbers of Units: a quarter is Pow2(MantissaBits)
\* Units, and random() draws k / Pow2(MantissaBits) for k below Pow2(MantissaBits).
QuarterUnits == Pow2(MantissaBits)

\* the float nearest to n Units: MantissaBits significant bits, ties to even
Round(n) ==
    IF BitLen(n) <= MantissaBits THEN n
    ELSE LET shift == BitLen(n) - MantissaBits
             q == n \div Pow2(shift)
             rem == n % Pow2(shift)
             half == Pow2(shift - 1)
             up == rem > half \/ (rem = half /\ q % 2 = 1)
         IN  (IF up THEN q + 1 ELSE q) * Pow2(shift)

\* variant: the jitter is doubled
SleepArgumentDouble(quarters, k) ==
    Round(quarters * QuarterUnits + 2 * Round(quarters * k))

\* min_time + min_time * random(), in floats; random() drew k / Pow2(MantissaBits),
\* so min_time * random() is quarters * k Units before rounding
SleepArgument(quarters, k) ==
    Round(quarters * QuarterUnits + Round(quarters * k))

\* fuzzy_sleep(min_time): one draw of random(), one time.sleep
FuzzySleep ==
    /\ ppc = "call"
    /\ \E k \in 0..(Pow2(MantissaBits) - 1) :
         slept' = SleepArgument(min_time, k)
    /\ ppc' = "slept"
    /\ UNCHANGED min_time
    /\ UNCHANGED <<ovars, hvars, vvars>>

PaceSpec == PaceInit /\ [][FuzzySleep]_vars

(* ------------------------------ the page ------------------------------ *)
\* len(wd.find_elements_by_css_selector(thumb_css)), after a list of `len`
ThumbCounts(page, len) ==
    IF page.kind = "paged" THEN {page.perPage * page.loaded}
    ELSE IF page.kind = "append" THEN {n \in 0..MaxThumbs : n >= len}
    ELSE 0..MaxThumbs

\* img.click() can raise
ClickMayFail(page) == page.kind # "paged"

\* len(wd.find_elements_by_css_selector(img_css)) after a click
RevealedCounts(page) == IF page.kind = "paged" THEN {1} ELSE 0..MaxRevealed

\* actual_image.get_attribute("src") after thumbnail i was clicked
Srcs(page, i) == IF page.kind = "paged" THEN {<<"http", ToString(i)>>} ELSE SrcValues

\* whether find_element_by_css_selector finds the two controls
Controls(page, left) ==
    IF page.kind = "paged" THEN {[see |-> FALSE, load |-> left > 0]}
    ELSE IF left = 0 THEN {[see |-> FALSE, load |-> FALSE]}
    ELSE [see : BOOLEAN, load : BOOLEAN]

\* the page after one of its controls was clicked
AfterControl(page) ==
    IF page.kind = "paged"
    THEN [page EXCEPT !.loaded = Min(page.loaded + 1, page.pages)]
    ELSE page

(* -------------------------- fetch_image_urls -------------------------- *)
\* variant: the test is off by one
TargetReachedLate(count, target) == count > target

\* `image_count >= number_of_links_to_fetch`, the test before `return image_urls`
TargetReached(count, target) == count >= target

\* variant: the slice ends one element early
WindowEndShort(nr, len) == Min(nr, len) - 1

\* thumbnail_results[results_start:number_results] ends at this index
WindowEnd(nr, len) == Min(nr, len)

\* variant: every iteration scans the list from its first element
WindowStartZero(start) == 0

\* thumbnail_results[results_start:number_results] starts at this index
WindowStart(start) == start

\* `except Exception: continue` around img.click()
ClickFailureCaught == TRUE

\* variant: the pace sits after the try block
PaceAfterAnyClick(outcome) == TRUE

\* fuzzy_sleep follows img.click() inside the try block
PaceAfterClick(outcome) == outcome = "ok"

\* variant: every usable src is counted
IsNewAlways(url, found) == TRUE

\* `image_url not in image_urls`
IsNew(url, found) == url \notin found

\* variant: the two branches are swapped
ResolveControlLoadFirst(see, load) ==
    IF load THEN "load" ELSE IF see THEN "see" ELSE "none"

\* which control the if / elif / else of the pagination step clicks
ResolveControl(see, load) ==
    IF see THEN "see" ELSE IF load THEN "load" ELSE "none"

\* variant: the elif branch is missing, the else returns on Load More too
PaginationReturnsOnLoad(control) == control \in {"none", "load"}

\* variant: the else branch does not return
PaginationNeverReturns(control) == FALSE

\* the else branch: `return image_urls` when no control was found
PaginationReturns(control) == control = "none"

Running == opc = "with" /\ wd = "open"

\* wd.get(search_url) and the four initialisations
HarvestEnter ==
    /\ Running /\ hpc = "idle"
    /\ hpc' = "while"
    /\ image_urls' = {}
    /\ image_count' = 0
    /\ results_start' = 0
    /\ number_results' = 0
    /\ UNCHANGED <<thumbs, idx, remaining, returnedAt, result, lastPag, lastStep,
                   window, earlier, pagesLeft, surface>>
    /\ UNCHANGED ovars
    /\ UNCHANGED <<pvars, vvars>>

\* the while test, scroll_to_end, find_elements(thumb_css), the slice
LoopHead ==
    /\ Running /\ hpc = "while"
    /\ IF image_count < number_images
       THEN /\ \E n \in ThumbCounts(surface, thumbs) :
                 /\ thumbs' = n
                 /\ number_results' = number_results + n
            /\ idx' = WindowStart(results_start)
            /\ hpc' = "for"
            /\ lastStep' = NoStep
            /\ earlier' = earlier \cup window
            /\ window' = {}
            /\ UNCHANGED <<returnedAt, result>>
       ELSE \* the loop is never entered: the function ends without a return
            /\ hpc' = "returned"
            /\ returnedAt' = "fallthrough"
            /\ result' = {}
            /\ UNCHANGED <<thumbs, number_results, idx, lastStep, window, earlier>>
    /\ UNCHANGED <<image_urls, image_count, results_start, remaining, lastPag,
                   pagesLeft, surface>>
    /\ UNCHANGED ovars
    /\ UNCHANGED <<pvars, vvars>>

\* img.click() raises: `continue`
ClickFails ==
    /\ Running /\ hpc = "for"
    /\ idx < WindowEnd(number_results, thumbs)
    /\ ClickMayFail(surface)
    /\ idx' = idx + 1
    /\ window' = window \cup {idx}
    /\ lastStep' = [event |-> "click_failed", paced |-> PaceAfterClick("failed")]
    /\ hpc' = IF ClickFailureCaught THEN "for" ELSE "raised"
    /\ UNCHANGED <<returnedAt, image_urls, image_count, results_start,
                   number_results, thumbs, remaining, result, lastPag, earlier,
                   pagesLeft, surface>>
    /\ UNCHANGED ovars
    /\ UNCHANGED <<pvars, vvars>>

\* img.click() succeeds; find_elements(img_css) gives k elements
ClickReveals ==
    /\ Running /\ hpc = "for"
    /\ idx < WindowEnd(number_results, thumbs)
    /\ idx' = idx + 1
    /\ window' = window \cup {idx}
    /\ lastStep' = [event |-> "click_ok", paced |-> PaceAfterClick("ok")]
    /\ \E k \in RevealedCounts(surface) :
         /\ remaining' = k
         /\ hpc' = IF k = 0 THEN "for" ELSE "extract"
    /\ UNCHANGED <<returnedAt, image_urls, image_count, results_start,
                   number_results, thumbs, result, lastPag, earlier, pagesLeft,
                   surface>>
    /\ UNCHANGED ovars
    /\ UNCHANGED <<pvars, vvars>>

\* one pass of `for actual_image in actual_images`
ExtractOne ==
    /\ Running /\ hpc = "extract" /\ remaining > 0
    /\ \E src \in Srcs(surface, idx - 1) :
         LET usable == UsableSrc(src)
             counted == usable /\ IsNew(src, image_urls)
             count == IF counted THEN image_count + 1 ELSE image_count
             found == IF usable THEN image_urls \cup {src} ELSE image_urls
         IN  /\ image_count' = count
             /\ lastStep' = [event |-> IF counted THEN "counted"
                                       ELSE IF usable THEN "repeat" ELSE "unusable",
                             paced |-> FALSE]
             /\ image_urls' = found
             /\ remaining' = remaining - 1
             /\ IF usable /\ TargetReached(count, number_images)
                THEN /\ hpc' = "returned"
                     /\ returnedAt' = "target"
                     /\ result' = found
                ELSE /\ hpc' = IF remaining = 1 THEN "for" ELSE "extract"
                     /\ UNCHANGED <<returnedAt, result>>
    /\ UNCHANGED <<results_start, number_results, thumbs, idx, lastPag, window,
                   earlier, pagesLeft, surface>>
    /\ UNCHANGED ovars
    /\ UNCHANGED <<pvars, vvars>>

\* after the for loop: scroll, look for both controls, click one or return,
\* then results_start = len(thumbnail_results)
Paginate ==
    /\ Running /\ hpc = "for"
    /\ idx >= WindowEnd(number_results, thumbs)
    /\ \E found \in Controls(surface, pagesLeft) :
         /\ LET see == found.see
                load == found.load
                control == ResolveControl(see, load)
            IN  /\ lastPag' = [see |-> see, load |-> load, clicked |-> control]
                /\ pagesLeft' = IF control = "none" THEN pagesLeft ELSE pagesLeft - 1
                /\ surface' = IF control = "none" THEN surface ELSE AfterControl(surface)
                /\ IF PaginationReturns(control)
                   THEN /\ hpc' = "returned"
                        /\ returnedAt' = "nocontrol"
                        /\ result' = image_urls
                        /\ UNCHANGED results_start
                   ELSE /\ hpc' = "while"
                        /\ results_start' = thumbs
                        /\ UNCHANGED <<returnedAt, result>>
    /\ lastStep' = [event |-> "paginate", paced |-> TRUE]
    /\ UNCHANGED <<image_urls, image_count, number_results, thumbs, idx, remaining,
                   window, earlier>>
    /\ UNCHANGED ovars
    /\ UNCHANGED <<pvars, vvars>>

\* a webdriver call outside the try block raises (wd.get, execute_script,
\* find_elements, get_attribute): the exception leaves fetch_image_urls
HarvestRaises ==
    /\ Running /\ hpc \in {"idle", "while", "for", "extract"}
    /\ hpc' = "raised"
    /\ lastStep' = [event |-> "call_raised", paced |-> FALSE]
    /\ UNCHANGED <<returnedAt, image_urls, image_count, results_start,
                   number_results, thumbs, idx, remaining, result, lastPag, window,
                   earlier, pagesLeft, surface>>
    /\ UNCHANGED ovars
    /\ UNCHANGED <<pvars, vvars>>

(* ------------------------- search_and_download ------------------------ *)
\* variant: no with statement, wd.quit() follows the call
WithExitQuitsOnReturnOnly(outcome) == outcome = "returned"

\* the with statement runs the driver's __exit__, which quits it, however
\* the block was left
WithExitQuits(outcome) == TRUE

\* variant: only the module's own exception class is caught
CaughtHtmlOnly(type) == type = "UnexpectedHTMLResponseFromImgSrcError"

\* `except Exception` catches whatever save_image raises
Caught(type) == TRUE

\* errors[e].append(url) on a defaultdict(list)
DictAppend(map, key, value) ==
    IF key \in DOMAIN map
    THEN [map EXCEPT ![key] = Append(@, value)]
    ELSE [k \in DOMAIN map \cup {key} |-> IF k = key THEN <<value>> ELSE map[k]]

\* `errors = defaultdict(list)` as the first statement of the loop body
ErrorsAtIteration(old) == [bound |-> TRUE, map |-> EmptyMap]

\* the exception object save_image raised for this URL: a fresh instance
Exc(type, url) == [type |-> type, at |-> url]

\* get_webdriver returns a driver
Acquire ==
    /\ opc = "start"
    /\ opc' = "with"
    /\ wd' = "open"
    /\ acquisitions' = acquisitions + 1
    /\ UNCHANGED <<number_images, target_path, quitCalls, lateOps, urls, pending,
                   errors, dl, store, summary>>
    /\ UNCHANGED hvars
    /\ UNCHANGED <<pvars, vvars>>

\* get_webdriver raises (no such browser, the driver cannot start)
AcquireFails ==
    /\ opc = "start"
    /\ opc' = "raised"
    /\ UNCHANGED <<number_images, target_path, wd, acquisitions, quitCalls, lateOps,
                   urls, pending, errors, dl, store, summary>>
    /\ UNCHANGED hvars
    /\ UNCHANGED <<pvars, vvars>>

\* leaving the with block: fetch_image_urls returned or raised
WithExit ==
    /\ opc = "with" /\ hpc \in {"returned", "raised"}
    /\ IF WithExitQuits(hpc)
       THEN /\ wd' = "quit"
            /\ quitCalls' = quitCalls + 1
            /\ lateOps' = IF wd = "quit" THEN lateOps + 1 ELSE lateOps
            \* the browser is closed and its page with it
            /\ pagesLeft' = 0
       ELSE UNCHANGED <<wd, quitCalls, lateOps, pagesLeft>>
    /\ IF hpc = "returned"
       THEN /\ opc' = "download"
            /\ urls' = result
            /\ pending' = result
       ELSE /\ opc' = "raised"
            /\ UNCHANGED <<urls, pending>>
    \* the frame of fetch_image_urls is gone
    /\ image_urls' = {}
    /\ image_count' = 0
    /\ results_start' = 0
    /\ number_results' = 0
    /\ thumbs' = 0
    /\ idx' = 0
    /\ remaining' = 0
    /\ lastPag' = NoPag
    /\ lastStep' = NoStep
    /\ window' = {}
    /\ earlier' = {}
    /\ UNCHANGED <<hpc, returnedAt, result, surface>>
    /\ UNCHANGED <<number_images, target_path, acquisitions, errors, dl, store, summary>>
    /\ UNCHANGED <<pvars, vvars>>

\* one pass of `for url in urls`: reset errors, save_image, except
Download ==
    /\ opc = "download" /\ pending # {}
    /\ \E url \in pending, resp \in Responses :
         LET out == SaveImage(target_path, url, resp)
             fresh == ErrorsAtIteration(errors)
         IN  /\ pending' = pending \ {url}
             /\ dl' = [u \in DOMAIN dl \cup {url} |->
                          IF u = url
                          THEN [resp |-> resp, raised |-> out.raised,
                                path |-> out.path, readCtype |-> out.readCtype]
                          ELSE dl[u]]
             /\ IF out.raised = "none"
                THEN /\ store' = [p \in DOMAIN store \cup {out.path} |->
                                     IF p = out.path THEN out.image ELSE store[p]]
                     /\ errors' = fresh
                     /\ UNCHANGED opc
                ELSE /\ UNCHANGED store
                     /\ IF Caught(out.raised)
                        THEN /\ errors' = [fresh EXCEPT !.map =
                                  DictAppend(fresh.map, Exc(out.raised, url), url)]
                             /\ UNCHANGED opc
                        ELSE \* the exception leaves search_and_download
                             /\ errors' = fresh
                             /\ opc' = "raised"
    /\ UNCHANGED <<number_images, target_path, wd, acquisitions, quitCalls,
                   lateOps, urls, summary>>
    /\ UNCHANGED hvars
    /\ UNCHANGED <<pvars, vvars>>

\* len(errors) of the dict
Len_errors == Cardinality(DOMAIN errors.map)

\* after the loop: the warning and the "n/m images successfully downloaded" line
AfterLoop ==
    /\ opc = "download" /\ pending = {}
    /\ IF errors.bound
       THEN /\ summary' = [logged |-> TRUE, failures |-> Len_errors,
                           successes |-> Cardinality(urls) - Len_errors]
            /\ opc' = "finalquit"
       ELSE \* `errors` was never assigned: len(errors) raises UnboundLocalError
            /\ opc' = "raised"
            /\ UNCHANGED summary
    /\ UNCHANGED <<number_images, target_path, wd, acquisitions, quitCalls, lateOps,
                   urls, pending, errors, dl, store>>
    /\ UNCHANGED hvars
    /\ UNCHANGED <<pvars, vvars>>

\* wd.quit() and `return urls`
FinalQuit ==
    /\ opc = "finalquit"
    /\ quitCalls' = quitCalls + 1
    /\ lateOps' = IF wd = "quit" THEN lateOps + 1 ELSE lateOps
    /\ wd' = "quit"
    /\ opc' = "done"
    /\ UNCHANGED <<number_images, target_path, acquisitions, urls, pending, errors,
                   dl, store, summary>>
    /\ UNCHANGED hvars
    /\ UNCHANGED <<pvars, vvars>>

(* -------------------------------- Vector ------------------------------ *)
\* two Vector objects, of the base class or of a subclass of it
Objects == {"v", "w"}
Classes == {"Vector", "Subclass"}

\* isinstance(obj, self.__class__): the same class, or a subclass of it
IsInstance(objClass, selfClass) == objClass = selfClass \/ selfClass = "Vector"

Labels == {"dog", "cat"}
NoRevision == "None"
RevisionArgs == {NoRevision, "r1"}
\* two trials of one experiment, each with its own work directory
Trials == {[experiment_name |-> "e1", work_dir |-> "work1"],
           [experiment_name |-> "e1", work_dir |-> "work2"]}

\* the property vector_pickle_path (the revision is never None here: __init__
\* replaces None and no action assigns it)
VectorPicklePath(d) ==
    <<d.trial.experiment_name, "vectors", d.revision, d.label, "w2cv.pickle">>

\* dict.update
DictUpdate(d, e) ==
    [k \in DOMAIN d \cup DOMAIN e |-> IF k \in DOMAIN e THEN e[k] ELSE d[k]]

\* the __dict__ Vector.__init__ leaves
InitDict(label, revision, trial) ==
    LET named == [label |-> label,
                  revision |-> IF revision = NoRevision
                                 THEN "unnamed-revision" ELSE revision,
                  trial |-> trial]
    IN  DictUpdate(named,
                   [k \in {"_attributes_available", "_local_pickle_path"} |->
                       IF k = "_attributes_available" THEN FALSE
                       ELSE <<trial.work_dir>> \o VectorPicklePath(named)])

\* Vector.__init__ sets no `log`; a subclass or the caller may have set one
WithLog(d) == DictUpdate(d, [k \in {"log"} |-> "logger"])

NewVectors ==
    {[cls |-> c, dict |-> d] :
        c \in Classes,
        d \in UNION {{InitDict(l, r, t), WithLog(InitDict(l, r, t))} :
                        l \in Labels, r \in RevisionArgs, t \in Trials}}

\* pickle.dump(self, f) writes the class and the __dict__; pickle.load makes
\* an object of that class with that __dict__
Pickle(obj) == [class |-> obj.cls, state |-> obj.dict]
Unpickle(p) == [cls |-> p.class, dict |-> p.state]

\* writing a file, or an S3 object
Write(files, path, content) ==
    [q \in DOMAIN files \cup {path} |-> IF q = path THEN content ELSE files[q]]

LocalPicklePath(obj) == obj.dict["_local_pickle_path"]

\* save(): the pickle is written, then self.log is read
SaveFile(obj, fs) == Write(fs, LocalPicklePath(obj), Pickle(obj))
SaveRaises(obj) ==
    IF "log" \in DOMAIN obj.dict THEN "none" ELSE "AttributeError"

\* load()
LoadRaises(obj, fs) ==
    IF LocalPicklePath(obj) \notin DOMAIN fs THEN "FileNotFoundError"
    ELSE IF ~IsInstance(Unpickle(fs[LocalPicklePath(obj)]).cls, obj.cls)
         THEN "BadPickleError"
         ELSE "none"

Loaded(obj, fs) ==
    IF LoadRaises(obj, fs) = "none"
    THEN [obj EXCEPT !.dict =
             DictUpdate(@, Unpickle(fs[LocalPicklePath(obj)]).dict)]
    ELSE obj

\* the S3 helpers
S3ObjectExists(path) == path \in DOMAIN remote
UploadFile(fs, bucket, local_path, s3_path) ==
    Write(bucket, s3_path, fs[local_path])
DownloadFile(fs, bucket, local_path, s3_path) ==
    Write(fs, local_path, bucket[s3_path])

\* pull() names NoObjectInS3Error, which vector.py never binds
PullRaisesWithoutObject == "NameError"

Called(op, o, raised) == [op |-> op, self |-> o, raised |-> raised]

\* run_analysis of a subclass: populates an attribute of the object
RunAnalysis(o) ==
    /\ o \in DOMAIN vec
    /\ \E a \in 1..MaxAnalysis :
         vec' = [vec EXCEPT ![o].dict =
                    DictUpdate(@, [k \in {"analysis"} |-> a])]
    /\ vcall' = Called("run_analysis", o, "none")
    /\ UNCHANGED <<localfs, remote, pushedAt>>
    /\ UNCHANGED <<ovars, hvars, pvars>>

Save(o) ==
    /\ o \in DOMAIN vec
    /\ localfs' = SaveFile(vec[o], localfs)
    /\ vcall' = Called("save", o, SaveRaises(vec[o]))
    /\ UNCHANGED <<vec, remote, pushedAt>>
    /\ UNCHANGED <<ovars, hvars, pvars>>

Load(o) ==
    /\ o \in DOMAIN vec
    /\ vec' = [vec EXCEPT ![o] = Loaded(@, localfs)]
    /\ vcall' = Called("load", o, LoadRaises(vec[o], localfs))
    /\ UNCHANGED <<localfs, remote, pushedAt>>
    /\ UNCHANGED <<ovars, hvars, pvars>>

Push(o) ==
    /\ o \in DOMAIN vec
    /\ LET obj == vec[o]
           s3_path == VectorPicklePath(obj.dict)
           saved == SaveFile(obj, localfs)
       IN  /\ localfs' = saved
           /\ vcall' = Called("push", o, SaveRaises(obj))
           /\ IF SaveRaises(obj) = "none"
              THEN /\ remote' = UploadFile(saved, remote,
                                           LocalPicklePath(obj), s3_path)
                   /\ pushedAt' = Write(pushedAt, s3_path, obj)
              ELSE UNCHANGED <<remote, pushedAt>>
    /\ UNCHANGED vec
    /\ UNCHANGED <<ovars, hvars, pvars>>

Pull(o) ==
    /\ o \in DOMAIN vec
    /\ LET obj == vec[o]
           s3_path == VectorPicklePath(obj.dict)
       IN  IF ~S3ObjectExists(s3_path)
           THEN /\ vcall' = Called("pull", o, PullRaisesWithoutObject)
                /\ UNCHANGED <<vec, localfs>>
           ELSE LET got == DownloadFile(localfs, remote,
                                        LocalPicklePath(obj), s3_path)
                IN  /\ localfs' = got
                    /\ vec' = [vec EXCEPT ![o] = Loaded(@, got)]
                    /\ vcall' = Called("pull", o, LoadRaises(obj, got))
    /\ UNCHANGED <<remote, pushedAt>>
    /\ UNCHANGED <<ovars, hvars, pvars>>

(* ---------------------------- specifications --------------------------- *)
Harvest ==
    \/ HarvestEnter
    \/ LoopHead
    \/ ClickFails
    \/ ClickReveals
    \/ ExtractOne
    \/ Paginate

Orchestrate ==
    \/ Acquire
    \/ AcquireFails
    \/ WithExit
    \/ Download
    \/ AfterLoop
    \/ FinalQuit

Next == Harvest \/ HarvestRaises \/ Orchestrate

Spec == Init /\ [][Next]_vars

\* A browser whose calls never raise outside the click, and a program that
\* keeps running: every blocking call returns.
NextNoFault == Harvest \/ Orchestrate

LiveSpec == Init /\ [][NextNoFault]_vars /\ WF_vars(NextNoFault)

\* One harvest on a scripted page, up to the end of the with block.
ScenarioNext ==
    \/ Acquire
    \/ HarvestEnter
    \/ LoopHead
    \/ ClickReveals
    \/ ExtractOne
    \/ Paginate
    \/ WithExit

ScenarioSpec == ScenarioInit /\ [][ScenarioNext]_vars

\* Two Vector objects and the methods called on them, in any order. The
\* labels and the trials are interchangeable, so v's are fixed.
VectorInit ==
    /\ Program
    /\ NoPace
    /\ target_path = "./downloads"
    /\ number_images = 1
    /\ pagesLeft = 0
    /\ surface = Unscripted("free")
    /\ vec \in [Objects -> NewVectors]
    /\ vec["v"].dict.label = "dog"
    /\ vec["v"].dict.trial.work_dir = "work1"
    /\ localfs = EmptyMap
    /\ remote = EmptyMap
    /\ pushedAt = EmptyMap
    /\ vcall = NoCall

VectorNext ==
    \E o \in Objects :
        \/ RunAnalysis(o)
        \/ Save(o)
        \/ Load(o)
        \/ Push(o)
        \/ Pull(o)

VectorSpec == VectorInit /\ [][VectorNext]_vars

(* ------------------------------ properties ----------------------------- *)
Range(f) == {f[x] : x \in DOMAIN f}

JustReturned == hpc = "returned" /\ opc = "with"
Failed(u) == u \in DOMAIN dl /\ dl[u].raised # "none"
Saved(u) == u \in DOMAIN dl /\ dl[u].raised = "none"
AfterDownloads == opc \in {"finalquit", "done"}
\* content-types that do and do not announce an HTML document, and the byte
\* strings that are images
HtmlTypes == {"text/html; charset=UTF-8"}
OtherTypes == {"image/jpeg"}
ImageBodies == {"jpegA", "jpegB", "pngA2"}
SavedBodies == {dl[u].resp.body : u \in {v \in DOMAIN dl : Saved(v)}}

\* C1: the set fetch_image_urls returns has at most number_images elements;
\* it is a set, and the count of accepted URLs equals its size (a URL seen
\* twice is counted once). The orchestrator's urls is that set.
HarvestBounded ==
    /\ JustReturned =>
         /\ Cardinality(result) <= number_images
         /\ image_count = Cardinality(result)
    /\ opc \in {"download", "finalquit", "done"} =>
         Cardinality(urls) <= number_images

C1_Witness ==
    /\ JustReturned
    /\ number_images >= 2
    /\ Cardinality(result) = number_images

\* C2: when fetch_image_urls returns, either the count reached the target, or
\* the pagination step just found neither control and the value returned is
\* the set discovered so far.
HarvestReturnsOnlyTwoWays ==
    JustReturned =>
        \/ image_count >= number_images
        \/ /\ lastPag.clicked = "none"
           /\ ~lastPag.see /\ ~lastPag.load
           /\ result = image_urls

C2_Witness ==
    /\ JustReturned
    /\ image_count < number_images
    /\ result # {}
    /\ lastPag = [see |-> FALSE, load |-> FALSE, clicked |-> "none"]

\* C3: on a page that stops offering pagination controls, with finite
\* element lists and calls that do not raise, a harvest that has started
\* eventually returns.
HarvestEventuallyReturns == (opc = "with") ~> (hpc = "returned")

C3_Witness ==
    /\ JustReturned
    /\ returnedAt = "nocontrol"
    /\ results_start > 0
    /\ pagesLeft = 0

\* C4: once the driver was acquired, it has been quit whenever the with block
\* has been left, by return or by exception.
SurfaceReleasedOnEveryExit ==
    (acquisitions > 0 /\ opc \notin {"start", "with"}) => wd = "quit"

C4_Witness == opc = "raised" /\ hpc = "raised" /\ wd = "quit" /\ quitCalls = 1

\* C5: save_image is called for every harvested URL whatever the other
\* downloads did, and a failing download never makes search_and_download raise.
EveryUrlDownloaded ==
    /\ AfterDownloads => DOMAIN dl = urls
    /\ opc = "download" => DOMAIN dl = urls \ pending
    /\ (\E u \in urls : Failed(u)) => opc # "raised"

C5_Witness ==
    /\ opc = "done"
    /\ \E u \in urls, v \in urls : Failed(u) /\ Saved(v)
    /\ \A u \in urls : u \in DOMAIN dl

\* C6: when the downloads are over, errors lists every URL whose download
\* failed, under the kind of its failure.
ErrorsListEveryFailure ==
    AfterDownloads =>
        \A u \in urls :
            Failed(u) =>
                \E e \in DOMAIN errors.map :
                    /\ e.type = dl[u].raised
                    /\ u \in Range(errors.map[e])

SameBytesSamePath ==
    /\ \A u \in DOMAIN dl, v \in DOMAIN dl :
          (Saved(u) /\ Saved(v) /\ dl[u].resp.body = dl[v].resp.body)
              => dl[u].path = dl[v].path
    /\ \A u \in DOMAIN dl :
          /\ (dl[u].resp.fetch = "ok" /\ dl[u].resp.body \in ImageBodies) => Saved(u)
          /\ Saved(u) =>
                /\ dl[u].path \in DOMAIN store
                /\ dl[u].path.dir = target_path
                /\ Len(dl[u].path.name) = HashPrefixLen + 1
    /\ Cardinality(DOMAIN store) <= Cardinality(SavedBodies)

C8_Witness ==
    \E u \in DOMAIN dl, v \in DOMAIN dl :
        /\ u # v
        /\ Saved(u) /\ Saved(v)
        /\ dl[u].resp.body = dl[v].resp.body
        /\ dl[u].path = dl[v].path
        /\ Cardinality(DOMAIN store) = 1

\* C9: a pagination step clicks See More Anyway exactly when it is present,
\* Load More exactly when it is present and See More Anyway is not, and
\* nothing when neither is, in which case the harvest returns the set
\* discovered so far.
SeeMoreAnywayPreferred ==
    lastPag.clicked # "unresolved" =>
        /\ lastPag.clicked = "see" <=> lastPag.see
        /\ lastPag.clicked = "load" <=> (~lastPag.see /\ lastPag.load)
        /\ lastPag.clicked = "none" <=> (~lastPag.see /\ ~lastPag.load)
        /\ lastPag.clicked = "none" =>
              (hpc = "returned" /\ returnedAt = "nocontrol" /\ result = image_urls)
        /\ lastPag.clicked # "none" => hpc # "returned" \/ returnedAt = "target"

C9_Witness ==
    /\ lastPag = [see |-> TRUE, load |-> TRUE, clicked |-> "see"]
    /\ hpc = "while"

\* C10: the driver is acquired once, it is quit before the first download,
\* and nothing is called on it after that quit.
SurfaceUntouchedAfterRelease ==
    /\ acquisitions <= 1
    /\ DOMAIN dl # {} => wd = "quit"
    /\ lateOps = 0

\* C11: on a scripted page of p pages with k thumbnails each, a harvest whose
\* target exceeds k * p returns exactly k * p URLs, through the return of the
\* pagination step that found no control.
ScriptedPageHarvestedWhole ==
    (JustReturned /\ surface.kind = "paged"
        /\ number_images > surface.perPage * surface.pages) =>
            /\ Cardinality(result) = surface.perPage * surface.pages
            /\ returnedAt = "nocontrol"

C11_Witness ==
    /\ JustReturned
    /\ surface.perPage = 3 /\ surface.pages = 4
    /\ number_images > 12
    /\ Cardinality(result) = 12
    /\ returnedAt = "nocontrol"

\* C12: on a scripted page of one page with n thumbnails and no control, a
\* harvest with target at most n returns exactly target URLs and no
\* pagination step ever runs.
SinglePageNoControl ==
    /\ surface.kind = "paged" /\ surface.pages = 1 /\ pagesLeft = 0
    /\ number_images <= surface.perPage

SinglePageReachesTarget ==
    (SinglePageNoControl /\ opc = "with") =>
        /\ lastPag = NoPag
        /\ hpc = "returned" =>
              (Cardinality(result) = number_images /\ returnedAt = "target")

C12_Witness ==
    /\ JustReturned
    /\ SinglePageNoControl
    /\ surface.perPage = 10
    /\ number_images = 5
    /\ Cardinality(result) = 5

\* C13: the count the closing log line reports is the number of harvested URLs
\* minus the number of URLs whose download failed.
FailedUrls == {u \in urls : Failed(u)}

SummaryCountsSuccesses ==
    summary.logged =>
        summary.successes = Cardinality(urls) - Cardinality(FailedUrls)

\* C14: image_count is the number of elements of image_urls in every state of
\* a harvest: a URL already present is not counted again.
CountMatchesDiscovered == image_count = Cardinality(image_urls)

C14_Witness ==
    /\ opc = "with" /\ hpc \in {"for", "extract"}
    /\ lastStep.event = "repeat"
    /\ image_count = 1

\* C15: from one step of a harvest to the next, results_start does not
\* decrease, and it never exceeds number_results.
ScanWindowStartMonotone ==
    [][(opc' = "with") =>
          (results_start' >= results_start /\ results_start' <= number_results')]_vars

\* C16 as stated: the argument of time.sleep is at least min_time and less
\* than twice min_time.
SleepBelowTwiceMin ==
    ppc = "slept" =>
        /\ min_time * QuarterUnits <= slept
        /\ slept < 2 * min_time * QuarterUnits

\* C16 amended: the argument of time.sleep is at least min_time and at most
\* twice min_time.
SleepWithinClosedRange ==
    ppc = "slept" =>
        /\ min_time * QuarterUnits <= slept
        /\ slept <= 2 * min_time * QuarterUnits

C16_Witness ==
    /\ ppc = "slept"
    /\ min_time = 4
    /\ slept = 2 * min_time * QuarterUnits

\* C17: after a click that failed the loop is at its next thumbnail: nothing
\* was paced or extracted, the harvest goes on, and a thumbnail left in the
\* window can be clicked; a click that succeeded was followed by a pace.
FailedClickIsSkipped ==
    /\ lastStep.event = "click_failed" =>
          /\ hpc = "for"
          /\ ~lastStep.paced
          /\ remaining = 0
          /\ (idx < WindowEnd(number_results, thumbs)) => ENABLED ClickReveals
    /\ lastStep.event = "click_ok" => lastStep.paced

C17_Witness ==
    /\ lastStep.event = "click_failed"
    /\ hpc = "for"
    /\ idx < WindowEnd(number_results, thumbs)
    /\ image_count > 0

\* C18: in a state where image_count has reached the target the harvester is
\* at its return statement with the discovered set: no click, scroll or
\* pagination step can follow.
StopsAtTarget ==
    (opc = "with" /\ image_count >= number_images) =>
        /\ hpc = "returned"
        /\ returnedAt = "target"
        /\ result = image_urls
        /\ ~ENABLED Harvest

C18_Witness ==
    /\ JustReturned
    /\ returnedAt = "target"
    /\ idx < WindowEnd(number_results, thumbs)
    /\ remaining > 0

\* C19: the indices an iteration has tried are those from results_start up to
\* the loop's position, all below the length of the list, and all of the
\* window once the loop is through; on a list that only grows no index is
\* tried in two iterations and none below the position is left out.
WindowIsScannedOnce ==
    (opc = "with" /\ hpc \in {"for", "extract", "returned"}) =>
        /\ window = results_start..(idx - 1)
        /\ window \subseteq results_start..(thumbs - 1)
        /\ (hpc = "for" /\ idx >= WindowEnd(number_results, thumbs))
              => window = results_start..(thumbs - 1)
        /\ surface.kind = "append" =>
              /\ window \cap earlier = {}
              /\ window \cup earlier = 0..(idx - 1)

C19_Witness ==
    /\ opc = "with" /\ hpc = "for"
    /\ surface.kind = "append"
    /\ earlier # {} /\ window # {}
    /\ idx = thumbs

\* C20: when the harvester returned the empty set, search_and_download ends
\* normally, having downloaded nothing and reported no failure.
EmptyHarvestCompletes ==
    (hpc = "returned" /\ result = {} /\ opc \notin {"with", "download"}) =>
        /\ opc \in {"finalquit", "done"}
        /\ dl = EmptyMap
        /\ summary.failures = 0

\* the step just taken is o's pull(), with the S3 object of its path last
\* pushed by a Vector of the same class, label, revision and trial
PulledWhatWasPushed(o) ==
    /\ vcall'.op = "pull" /\ vcall'.self = o
    /\ VectorPicklePath(vec[o].dict) \in DOMAIN pushedAt
    /\ LET v == pushedAt[VectorPicklePath(vec[o].dict)]
       IN  /\ v.cls = vec[o].cls
           /\ v.dict.label = vec[o].dict.label
           /\ v.dict.revision = vec[o].dict.revision
           /\ v.dict.trial = vec[o].dict.trial

\* the step just taken is o's pull(), with no S3 object at its path
PulledNothing(o) ==
    /\ vcall'.op = "pull" /\ vcall'.self = o
    /\ ~S3ObjectExists(VectorPicklePath(vec[o].dict))

\* pull() without an S3 object raises, writes no file and leaves every
\* Vector as it was
PullWithoutObjectChangesNothing ==
    [][\A o \in DOMAIN vec :
          PulledNothing(o) =>
              /\ vcall'.raised # "none"
              /\ localfs' = localfs
              /\ vec' = vec]_vars

\* pull() of what a like Vector pushed returns, and gives the puller every
\* attribute the pusher had at push time, with the pusher's value
PulledAttributesCoverPushed ==
    [][\A o \in DOMAIN vec :
          PulledWhatWasPushed(o) =>
              LET v == pushedAt[VectorPicklePath(vec[o].dict)]
              IN  /\ vcall'.raised = "none"
                  /\ \A k \in DOMAIN v.dict :
                        /\ k \in DOMAIN vec'[o].dict
                        /\ vec'[o].dict[k] = v.dict[k]]_vars

\* C21: after v.push(), a Vector w of the same class, label, revision and
\* trial that calls w.pull() has exactly the attributes v had at push time;
\* and pull() without an S3 object at the Vector's path raises, downloads
\* nothing and leaves the Vector's attributes as they were.
PushPullRoundTrip ==
    [][\A o \in DOMAIN vec :
          /\ PulledWhatWasPushed(o) =>
                /\ vcall'.raised = "none"
                /\ vec'[o].dict = pushedAt[VectorPicklePath(vec[o].dict)].dict
          /\ PulledNothing(o) =>
                /\ vcall'.raised # "none"
                /\ localfs' = localfs
                /\ vec'[o].dict = vec[o].dict]_vars

====
